---- MODULE Spec2Model ----
(***************************************************************************)
(* Model of cairo_doc/rewriter.py: the Rewriter visitor that regenerates   *)
(* the documentation comments above the functions of a Cairo module.       *)
(*                                                                         *)
(* Strings are sequences of tokens (a tag, a blank, a word), so that the   *)
(* Python test `substring in s` is the search for a contiguous run of      *)
(* tokens.  An Optional[str] is a sequence of at most one string: << >>    *)
(* is None.  Lists are indexed from 0 as in the source (see At).           *)
(***************************************************************************)
EXTENDS Integers, Sequences, FiniteSets, TLC

VARIABLES
    top_level_elements, \* module.cairo_file.code_block.code_elements
    documentation,      \* Rewriter.documentation: name -> list of lines
    pc,                 \* position in visit_CairoModule
    run,                \* 1: first run of the tool, 2: run on its own output
    initial,            \* the parsed block before the first run
    first_run           \* the block the first run produced

vars == <<top_level_elements, documentation, pc, run, initial, first_run>>

----------------------------------------------------------------------------
(* Bounds of the model *)

MaxEntries == 4
MaxPriors == 3

----------------------------------------------------------------------------
(* Strings *)

SP == " "

\* f"@param {arg.name} "
ParamLine(name) == <<"@param", SP, name, SP>>

\* ret.typ.format()
TypeFormat(typ) ==
    CASE typ = "TypeFelt" -> <<"felt">>
      [] typ = "TypePointer" -> <<"felt", "*">>
      [] OTHER -> <<typ>>

\* f"@returns {ret.name} : {ret.typ.format()} "
ReturnsLine(ret) == <<"@returns", SP, ret.name, SP, ":", SP>> \o TypeFormat(ret.typ) \o <<SP>>

\* `substring in s`
IsSubstring(substring, s) ==
    \E k \in 0..(Len(s) - Len(substring)) :
        SubSeq(s, k + 1, k + Len(substring)) = substring

\* s.startswith(prefix)
StartsWith(s, prefix) ==
    Len(s) >= Len(prefix) /\ SubSeq(s, 1, Len(prefix)) = prefix

----------------------------------------------------------------------------
(* The tree: CommentedCodeElement(code_elm, comment) *)

None == << >>
Some(x) == <<x>>

CodeElementEmptyLine(comment) ==
    [kind |-> "CodeElementEmptyLine", comment |-> comment, name |-> "",
     element_type |-> "", decorators |-> << >>, arguments |-> << >>,
     has_returns |-> FALSE, returns |-> << >>, code_block |-> << >>]

CodeElementFunction(element_type, name, decorators, arguments, has_returns, returns, code_block) ==
    [kind |-> "CodeElementFunction", comment |-> None, name |-> name,
     element_type |-> element_type, decorators |-> decorators,
     arguments |-> arguments, has_returns |-> has_returns,
     returns |-> returns, code_block |-> code_block]

CodeElementOther ==
    [kind |-> "CodeElementImport", comment |-> None, name |-> "",
     element_type |-> "", decorators |-> << >>, arguments |-> << >>,
     has_returns |-> FALSE, returns |-> << >>, code_block |-> << >>]

\* top_level_elements[i], Python indexing (a negative index counts from the end)
ValidIndex(elems, i) == -Len(elems) <= i /\ i < Len(elems)
At(elems, i) == IF i >= 0 THEN elems[i + 1] ELSE elems[Len(elems) + i + 1]

\* list.insert(i, x) for 0 <= i <= len
Insert(elems, i, x) ==
    SubSeq(elems, 1, i) \o <<x>> \o SubSeq(elems, i + 1, Len(elems))

\* list.index(x): the first position holding a value equal to x
FirstEqual(elems, x) ==
    CHOOSE p \in 0..(Len(elems) - 1) :
        /\ elems[p + 1] = x
        /\ \A q \in 0..(p - 1) : elems[q + 1] # x

\* list.remove(x): deletes the first entry equal to x
ListRemove(elems, x) ==
    LET p == FirstEqual(elems, x)
    IN  SubSeq(elems, 1, p) \o SubSeq(elems, p + 2, Len(elems))

\* reversed(list)
Reversed(s) == [k \in 1..Len(s) |-> s[Len(s) + 1 - k]]

----------------------------------------------------------------------------
(* first_substring and create_function_documentation *)

RECURSIVE first_substring(_, _)
first_substring(strings, substring) ==
    IF strings = << >> THEN None
    ELSE IF IsSubstring(substring, Head(strings)) THEN Some(Head(strings))
    ELSE first_substring(Tail(strings), substring)

\* the authored line is dropped for the placeholder
ExistingOrPlaceholder(current_function_doc, current_line) == current_line

\* `existing_line if existing_line else current_line`
ExistingOr(current_function_doc, current_line) ==
    LET existing_line == first_substring(current_function_doc, current_line)
    IN  IF existing_line # None THEN existing_line[1] ELSE current_line

\* the parameters are walked last to first
tag_params_reversed(current_function_doc, func) ==
    [k \in 1..Len(func.arguments) |->
        ExistingOr(current_function_doc,
                   ParamLine(func.arguments[Len(func.arguments) + 1 - k]))]

tag_params(current_function_doc, func) ==
    [k \in 1..Len(func.arguments) |->
        ExistingOr(current_function_doc, ParamLine(func.arguments[k]))]

tag_returns(current_function_doc, func) ==
    IF func.has_returns
    THEN [k \in 1..Len(func.returns) |->
            ExistingOr(current_function_doc, ReturnsLine(func.returns[k]))]
    ELSE << >>

tag_notice(current_function_doc) ==
    LET existing_notice == first_substring(current_function_doc, <<"@notice", SP>>)
        existing_dev == first_substring(current_function_doc, <<"@dev">>)
    IN  (IF existing_notice # None THEN existing_notice ELSE <<(<<"@notice">>)>>)
        \o existing_dev

create_function_documentation(current_function_doc, func) ==
    LET tag_dev == << >>
        existing_inheritdoc == first_substring(current_function_doc, <<"@inheritdoc">>)
        docs == tag_notice(current_function_doc) \o tag_dev
                    \o tag_params(current_function_doc, func)
                    \o tag_returns(current_function_doc, func)
    IN  IF existing_inheritdoc # None THEN existing_inheritdoc ELSE docs

----------------------------------------------------------------------------
(* The three passes *)

need_instrumentation(func) ==
    /\ \E k \in 1..Len(func.decorators) : func.decorators[k] \notin {"storage_var"}
    /\ func.element_type \notin {"struct", "namespace"}

IsFunction(elm) == elm.kind = "CodeElementFunction"
IsEmptyLine(elm) == elm.kind = "CodeElementEmptyLine"

\* get_documentation, lines 58-65: the comments above index i, nearest first
RECURSIVE current_function_doc(_, _)
current_function_doc(elems, k) ==
    IF k > 0 /\ IsEmptyLine(At(elems, k - 1)) /\ At(elems, k - 1).comment # None
    THEN <<At(elems, k - 1).comment[1]>> \o current_function_doc(elems, k - 1)
    ELSE << >>

\* get_documentation, the loop for i in range(total_elements - 1, -1, -1)
RECURSIVE get_documentation_loop(_, _, _)
get_documentation_loop(elems, i, doc) ==
    IF i < 0 THEN doc
    ELSE LET func == At(elems, i)
         IN  IF ~IsFunction(func) \/ ~need_instrumentation(func)
             THEN get_documentation_loop(elems, i - 1, doc)
             ELSE get_documentation_loop(elems, i - 1,
                    (func.name :> create_function_documentation(
                                     current_function_doc(elems, i), func)) @@ doc)

get_documentation(elems, doc) ==
    get_documentation_loop(elems, Len(elems) - 1, doc)

\* the inner while without its `if comment == None: break`
RECURSIVE remove_inner_any_empty(_, _, _)
remove_inner_any_empty(elems, i, total_elements) ==
    IF ~ValidIndex(elems, i - 1)
    THEN [elems |-> elems, i |-> i, total_elements |-> total_elements, ok |-> FALSE]
    ELSE IF IsEmptyLine(At(elems, i - 1))
    THEN remove_inner_any_empty(ListRemove(elems, At(elems, i - 1)), i - 1, total_elements - 1)
    ELSE [elems |-> elems, i |-> i, total_elements |-> total_elements, ok |-> TRUE]

\* remove_documentation, lines 95-101: the inner while at index i
RECURSIVE remove_inner(_, _, _)
remove_inner(elems, i, total_elements) ==
    IF ~ValidIndex(elems, i - 1)
    THEN [elems |-> elems, i |-> i, total_elements |-> total_elements, ok |-> FALSE]
    ELSE IF IsEmptyLine(At(elems, i - 1)) /\ At(elems, i - 1).comment # None
    THEN remove_inner(ListRemove(elems, At(elems, i - 1)), i - 1, total_elements - 1)
    ELSE [elems |-> elems, i |-> i, total_elements |-> total_elements, ok |-> TRUE]

\* remove_documentation, the loop while (True); i is the value before i += 1
RECURSIVE remove_loop(_, _, _)
remove_loop(elems, i0, total_elements) ==
    LET i == i0 + 1
    IN  IF i = total_elements THEN [elems |-> elems, ok |-> TRUE]
        ELSE IF ~ValidIndex(elems, i) THEN [elems |-> elems, ok |-> FALSE]
        ELSE LET func == At(elems, i)
             IN  IF ~IsFunction(func) \/ ~need_instrumentation(func)
                 THEN remove_loop(elems, i, total_elements)
                 ELSE LET r == remove_inner(elems, i, total_elements)
                      IN  IF r.ok THEN remove_loop(r.elems, r.i, r.total_elements)
                          ELSE [elems |-> r.elems, ok |-> FALSE]

remove_documentation(elems) == remove_loop(elems, -1, Len(elems))

\* add_documentation, lines 122-133: insert the lines, last one first, at i
RECURSIVE insert_lines(_, _, _)
insert_lines(elems, i, lines) ==
    IF lines = << >> THEN elems
    ELSE insert_lines(Insert(elems, i, CodeElementEmptyLine(Some(Head(lines)))),
                      i, Tail(lines))

\* the lines inserted first one first: enumerate(current_function_doc)
add_lines_in_order(elems, i, current_doc) == insert_lines(elems, i, current_doc)

add_lines(elems, i, current_doc) == insert_lines(elems, i, Reversed(current_doc))

\* add_documentation, the loop for i in range(total_elements - 1, -1, -1)
RECURSIVE add_documentation_loop(_, _, _)
add_documentation_loop(elems, i, doc) ==
    IF i < 0 THEN [elems |-> elems, ok |-> TRUE]
    ELSE LET func == At(elems, i)
         IN  IF ~IsFunction(func) \/ ~need_instrumentation(func)
             THEN add_documentation_loop(elems, i - 1, doc)
             ELSE IF func.name \notin DOMAIN doc
             THEN [elems |-> elems, ok |-> FALSE]
             ELSE add_documentation_loop(add_lines(elems, i, doc[func.name]), i - 1, doc)

add_documentation(elems, doc) == add_documentation_loop(elems, Len(elems) - 1, doc)

----------------------------------------------------------------------------
(* Inputs *)

NoticeHello == <<"@notice", SP, "hello">>
NoticeOther == <<"@notice", SP, "other">>
DevCareful == <<"@dev", SP, "careful">>
ParamTo == <<"@param", SP, "to", SP, "dest">>
ParamToNotice == <<"@param", SP, "to", SP, "see", SP, "@notice", SP, "x">>
ReturnsSuccess == <<"@returns", SP, "success", SP, ":", SP, "felt", SP, "ok">>
InheritDoc == <<"@inheritdoc", SP, "IERC20">>
DevInheritDoc == <<"@dev", SP, "see", SP, "@inheritdoc">>
PlainText == <<"transfers", SP, "tokens">>

Felt(name) == [name |-> name, typ |-> "TypeFelt"]

Transfer ==
    CodeElementFunction("func", "transfer", <<"external">>, <<"to", "amount">>,
                        TRUE, <<Felt("success")>>, << >>)
Send ==
    CodeElementFunction("func", "send", <<"external">>, <<"to">>,
                        TRUE, <<Felt("success")>>, << >>)
Burn ==
    CodeElementFunction("func", "burn", <<"view", "storage_var">>, << >>,
                        TRUE, <<[name |-> "data", typ |-> "TypePointer"]>>, << >>)
Helper ==
    CodeElementFunction("func", "helper", << >>, <<"to">>, FALSE, << >>, << >>)
Account ==
    CodeElementFunction("struct", "Account", << >>, << >>, FALSE, << >>, << >>)
Balances ==
    CodeElementFunction("func", "balances", <<"storage_var">>, <<"to">>,
                        TRUE, <<Felt("success")>>, << >>)
Transferred ==
    CodeElementFunction("func", "Transferred", <<"event">>, <<"to">>, FALSE, << >>, << >>)
ERC20 ==
    CodeElementFunction("namespace", "ERC20", << >>, << >>, FALSE, << >>, <<Send>>)

\* the entries the blocks of the rewriting specification are made of
BlockLines == {NoticeHello, ParamToNotice}
BlockEntries ==
    {CodeElementEmptyLine(Some(l)) : l \in BlockLines}
        \cup {CodeElementEmptyLine(None), CodeElementOther,
              Send, Helper, Account, Balances, ERC20}

Blocks == UNION {[1..n -> BlockEntries] : n \in 0..MaxEntries}

\* the inputs of the schema specification: one function below its comments
SchemaLines ==
    {NoticeHello, NoticeOther, DevCareful, ParamTo, ParamToNotice,
     ReturnsSuccess, InheritDoc, DevInheritDoc, PlainText}
SchemaFunctions == {Transfer, Burn, Helper, Balances, Transferred}
Priors == UNION {[1..n -> SchemaLines] : n \in 0..MaxPriors}
SchemaBlocks ==
    {[k \in 1..Len(p) |-> CodeElementEmptyLine(Some(p[k]))] \o <<f>> :
        p \in Priors, f \in SchemaFunctions}

----------------------------------------------------------------------------
(* The state machine: Rewriter.visit_CairoModule, run by cli.py *)

InitOn(blocks) ==
    /\ top_level_elements \in blocks
    /\ initial = top_level_elements
    /\ first_run = << >>
    /\ documentation = << >>
    /\ pc = "get_documentation"
    /\ run = 1

Init == InitOn(Blocks)
SchemaInit == InitOn(SchemaBlocks)

GetDocumentation ==
    /\ pc = "get_documentation"
    /\ documentation' = get_documentation(top_level_elements, documentation)
    /\ pc' = "remove_documentation"
    /\ UNCHANGED <<top_level_elements, run, initial, first_run>>

RemoveDocumentation ==
    /\ pc = "remove_documentation"
    /\ LET r == remove_documentation(top_level_elements)
       IN  /\ top_level_elements' = r.elems
           /\ pc' = IF r.ok THEN "add_documentation" ELSE "failed"
    /\ UNCHANGED <<documentation, run, initial, first_run>>

AddDocumentation ==
    /\ pc = "add_documentation"
    /\ LET r == add_documentation(top_level_elements, documentation)
       IN  /\ top_level_elements' = r.elems
           /\ pc' = IF r.ok THEN "done" ELSE "failed"
    /\ UNCHANGED <<documentation, run, initial, first_run>>

\* cli.py run again on the file it wrote: a new Rewriter on the same tree
Rerun ==
    /\ pc = "done"
    /\ run = 1
    /\ run' = 2
    /\ first_run' = top_level_elements
    /\ documentation' = << >>
    /\ pc' = "get_documentation"
    /\ UNCHANGED <<top_level_elements, initial>>

Next == GetDocumentation \/ RemoveDocumentation \/ AddDocumentation \/ Rerun

Spec == Init /\ [][Next]_vars
SchemaSpec == SchemaInit /\ [][Next]_vars

----------------------------------------------------------------------------
(* Vocabulary of the properties *)

\* a comment-only entry that carries a comment
IsDocLine(elm) == IsEmptyLine(elm) /\ elm.comment # None

\* the entries that are not comment-carrying comment-only entries, in order
Code(elems) == SelectSeq(elems, LAMBDA e : ~IsDocLine(e))

\* the number of comment-carrying comment-only entries immediately above index i
DocCount(elems, i) ==
    CHOOSE n \in 0..i :
        /\ \A j \in 1..n : IsDocLine(At(elems, i - j))
        /\ n = i \/ ~IsDocLine(At(elems, i - n - 1))

\* their comments, topmost first
DocAbove(elems, i) ==
    LET n == DocCount(elems, i)
    IN  [k \in 1..n |-> At(elems, i - n + k - 1).comment[1]]

\* the index in elems of the k-th entry of Code(elems)
CodeIndex(elems, k) ==
    CHOOSE i \in 0..(Len(elems) - 1) :
        /\ ~IsDocLine(At(elems, i))
        /\ Len(Code(SubSeq(elems, 1, i))) = k - 1

\* the comments above the k-th entry of Code(elems), topmost first
DocOfCode(elems, k) == DocAbove(elems, CodeIndex(elems, k))

Documentable(elm) == IsFunction(elm) /\ need_instrumentation(elm)

\* the documentation blocks of the documentable declarations, in order
DocBlocks(elems) ==
    LET code == Code(elems)
    IN  [k \in 1..Len(code) |->
            IF Documentable(code[k]) THEN DocOfCode(elems, k) ELSE << >>]

Range(s) == {s[k] : k \in 1..Len(s)}

\* a type as it is written in the source text
TypeText(typ) == IF typ = "TypeFelt" THEN <<"felt">> ELSE <<"felt", "*">>

\* the classification of section 4.1 of the specification
SpecSkipDecorators(elm) ==
    /\ elm.decorators # << >>
    /\ \A k \in 1..Len(elm.decorators) : elm.decorators[k] \in {"storage_var", "event"}
SpecDocument(elm) ==
    elm.decorators = << >> \/
    \E k \in 1..Len(elm.decorators) : elm.decorators[k] \notin {"storage_var", "event"}

\* the three passes in a row on a block of its own
RunPasses(elems) ==
    add_documentation(remove_documentation(elems).elems,
                      get_documentation(elems, << >>)).elems

\* the schema specification: the function is the last entry of the block
SchemaFunc == initial[Len(initial)]
SchemaPriors == Reversed(DocAbove(initial, Len(initial) - 1))
SchemaDoc == documentation[SchemaFunc.name]
\* the first run has resolved the block of a declaration that both the
\* specification and the code document
SchemaResolved ==
    /\ run = 1
    /\ pc # "get_documentation"
    /\ SpecDocument(SchemaFunc)
    /\ SchemaFunc.name \in DOMAIN documentation

----------------------------------------------------------------------------
(* C1: running the three passes again on the tree the first run produced   *)
(* leaves the documentation block of every documentable declaration        *)
(* line-for-line identical.                                                *)
C1_Idempotent ==
    (pc = "done" /\ run = 2) =>
        DocBlocks(top_level_elements) = DocBlocks(first_run)

----------------------------------------------------------------------------
\* the canonical tag patterns whose referent is in the signature
CanonicalPatterns(func) ==
    {<<"@notice", SP>>, <<"@dev">>}
        \cup {<<"@param", SP, func.arguments[k], SP>> : k \in 1..Len(func.arguments)}
        \cup {<<"@returns", SP, func.returns[k].name, SP>> : k \in 1..Len(func.returns)}

SearchedPatterns(func) ==
    {<<"@notice", SP>>, <<"@dev">>}
        \cup {<<"@param", SP, func.arguments[k], SP>> : k \in 1..Len(func.arguments)}
        \cup {<<"@returns", SP, func.returns[k].name, SP, ":", SP>>
                    \o TypeText(func.returns[k].typ) \o <<SP>> :
                k \in 1..Len(func.returns)}

\* l is the line of lines nearest to the declaration that contains pat
NearestWith(lines, pat, l) ==
    \E k \in 1..Len(lines) :
        /\ lines[k] = l
        /\ IsSubstring(pat, l)
        /\ \A j \in 1..(k - 1) : ~IsSubstring(pat, lines[j])

----------------------------------------------------------------------------
(* C3, as stated: with no prior line the block is '@notice', one           *)
(* '@param <name> ' per parameter in order, one '@returns <member name> '  *)
(* per return member in order, and no '@dev' line.                         *)
C3_PlaceholdersAsStated ==
    (SchemaResolved /\ SchemaPriors = << >>) =>
        SchemaDoc =
            <<(<<"@notice">>)>>
            \o [k \in 1..Len(SchemaFunc.arguments) |->
                    <<"@param", SP, SchemaFunc.arguments[k], SP>>]
            \o [k \in 1..Len(SchemaFunc.returns) |->
                    <<"@returns", SP, SchemaFunc.returns[k].name, SP>>]

(* C3, amended: with no prior line the block is '@notice', one             *)
(* '@param <name> ' per parameter in order, one                            *)
(* '@returns <member name> : <type> ' per return member in order, and no   *)
(* '@dev' line.                                                            *)
C3_Placeholders ==
    (SchemaResolved /\ SchemaPriors = << >>) =>
        SchemaDoc =
            <<(<<"@notice">>)>>
            \o [k \in 1..Len(SchemaFunc.arguments) |->
                    <<"@param", SP, SchemaFunc.arguments[k], SP>>]
            \o [k \in 1..Len(SchemaFunc.returns) |->
                    <<"@returns", SP, SchemaFunc.returns[k].name, SP, ":", SP>>
                        \o TypeText(SchemaFunc.returns[k].typ) \o <<SP>>]

C3_Witness ==
    /\ SchemaResolved
    /\ SchemaPriors = << >>
    /\ SchemaFunc = Transfer
    /\ Len(SchemaDoc) = 4

----------------------------------------------------------------------------
(* C4: if a prior line starts with '@inheritdoc', the resolved block is    *)
(* exactly one such line and nothing else.                                 *)
C4_InheritdocTotal ==
    (SchemaResolved
        /\ \E l \in Range(SchemaPriors) : StartsWith(l, <<"@inheritdoc">>))
    => /\ Len(SchemaDoc) = 1
       /\ SchemaDoc[1] \in Range(SchemaPriors)
       /\ StartsWith(SchemaDoc[1], <<"@inheritdoc">>)

----------------------------------------------------------------------------
(* C5: the comment-only entries above a struct or a storage_var            *)
(* declaration are the same after the whole pipeline as before it.         *)
(* (A declaration decorated 'event' only is left to C6: the code           *)
(* classifies it differently.)                                             *)
C5_SkippedUntouched ==
    (pc = "done" /\ run = 1) =>
        \A k \in 1..Len(Code(initial)) :
            LET elm == Code(initial)[k]
            IN  (IsFunction(elm)
                    /\ (elm.element_type = "struct"
                            \/ (elm.element_type = "func" /\ elm.decorators = <<"storage_var">>)))
                => DocOfCode(top_level_elements, k) = DocOfCode(initial, k)

----------------------------------------------------------------------------
(* C6: a function-shaped declaration that is no struct and no scope is     *)
(* given a documentation block exactly when it has no decorator or has a   *)
(* decorator outside {storage_var, event}.                                 *)
C6_Classification ==
    pc # "get_documentation" =>
        \A k \in 1..Len(top_level_elements) :
            LET elm == top_level_elements[k]
            IN  (IsFunction(elm) /\ elm.element_type \notin {"struct", "namespace"})
                => /\ SpecDocument(elm) <=> elm.name \in DOMAIN documentation
                   /\ SpecSkipDecorators(elm) <=> elm.name \notin DOMAIN documentation

----------------------------------------------------------------------------
(* C7: after the pipeline every documentable declaration inside a scope    *)
(* has the documentation block it would get as a top-level declaration.    *)
C7_ScopeRecursion ==
    (pc = "done" /\ run = 1) =>
        \A k \in 1..Len(Code(initial)) :
            Code(initial)[k].element_type = "namespace"
            => DocBlocks(Code(top_level_elements)[k].code_block)
                    = DocBlocks(RunPasses(Code(initial)[k].code_block))

----------------------------------------------------------------------------
(* C8: the three passes run to completion on every block.                  *)
C8_NeverFails == pc # "failed"

----------------------------------------------------------------------------
(* C9: after the three passes every documentable declaration at index i    *)
(* with resolved block D of n lines has D[0..n-1] in the n comment-only    *)
(* entries at i-n..i-1, and the entry at i-n-1, if any, carries no         *)
(* comment-only comment.                                                   *)
C9_OneCanonicalBlock ==
    pc = "done" =>
        \A i \in 0..(Len(top_level_elements) - 1) :
            Documentable(At(top_level_elements, i)) =>
                LET D == documentation[At(top_level_elements, i).name]
                    n == Len(D)
                IN  /\ i >= n
                    /\ \A k \in 0..(n - 1) :
                          At(top_level_elements, i - n + k) = CodeElementEmptyLine(Some(D[k + 1]))
                    /\ i - n - 1 >= 0 => ~IsDocLine(At(top_level_elements, i - n - 1))

C9_Witness ==
    /\ pc = "done"
    /\ run = 1
    /\ \E i \in 0..(Len(top_level_elements) - 1) :
          /\ Documentable(At(top_level_elements, i))
          /\ DocCount(top_level_elements, i) >= 3
          /\ i - DocCount(top_level_elements, i) - 1 >= 0
    /\ \E j \in 1..(Len(initial) - 2) :
          /\ Documentable(initial[j + 2])
          /\ IsDocLine(initial[j + 1])
          /\ IsDocLine(initial[j])
          /\ initial[j].comment[1] \notin Range(documentation[initial[j + 2].name])

----------------------------------------------------------------------------
(* C10: in every state the entries that are not comment-carrying           *)
(* comment-only entries are the same sequence as in the parsed block.      *)
C10_CodeKept == Code(top_level_elements) = Code(initial)

\* a removal by value that deleted an earlier equal entry, not the one above
C10_Witness ==
    /\ pc = "add_documentation"
    /\ run = 1
    /\ Len(top_level_elements) < Len(initial)
    /\ \E j \in 1..Len(initial) : IsEmptyLine(initial[j]) /\ initial[j].comment = None
    /\ \E j \in 2..(Len(initial) - 1) :
          /\ IsDocLine(initial[j])
          /\ Documentable(initial[j + 1])
          /\ initial[1] = initial[j]
          /\ ~IsDocLine(initial[j - 1])

====
